---- MODULE Spec2Model ----
(***************************************************************************)
(* Model of the nfc-pcsc codec layer (src/src/command.rs).                 *)
(*                                                                         *)
(* The command codec and the response codec are pure functions; they are   *)
(* modelled as operators and driven by two small state machines:           *)
(*   SpecCommand   encodes / decodes commands and command frames,          *)
(*   SpecResponse  encodes / decodes responses and response frames.        *)
(* A Rust panic (todo!(), an index past the end of a slice) is the result  *)
(* Panic: the call does not return and the thread unwinds.                 *)
(***************************************************************************)
EXTENDS Integers, Sequences, FiniteSets, TLC

VARIABLES
    command,    \* the PcscCommand in hand, if any (moved out by encode)
    frame,      \* the command frame (&[u8]) in hand, if any
    cmdLog,     \* the command-codec calls made so far, with their results
    expected,   \* the last expected_response_len() asked, with its command
    response,   \* the PcscResponse in hand, if any (moved out by encode)
    reply,      \* the response frame (&[u8]) in hand, if any
    respLog,    \* the response-codec calls made so far, with their results
    atr,        \* the ATR bytes handed to parse_atr
    atrRes,     \* the outcome of parse_atr(atr), once it was called
    status,     \* the PcscStatusWords value whose diagnostic is looked up
    infoLog,    \* the extra_info lookups made so far, with their results
    tag,        \* one RfidTag::run_command call: its position and its locals
    reader,     \* the Reader: is_alive and its ReaderState (current, event)
    readerLog   \* the get_card calls made so far, with what each did

cmdVars == <<command, frame, cmdLog, expected>>
respVars == <<response, reply, respLog>>
atrVars == <<atr, atrRes>>
infoVars == <<status, infoLog>>
readerVars == <<reader, readerLog>>
vars == <<cmdVars, respVars, atrVars, infoVars, tag, readerVars>>

----------------------------------------------------------------------------
(* Bounds of the model *)

\* get_card calls made on one reader
MaxCalls == 3
\* extra_info lookups made for one status value
MaxLookups == 2
\* short payloads are enumerated exhaustively up to this length
MaxData == 2
\* payload / frame lengths are taken up to this many bytes past each limit
MaxOver == 2
\* raw command frames carry up to this many bytes after the 5-byte header
MaxTail == 6
\* codec calls made in one run
MaxOps == 3

(* Program constants *)
U8_MAX == 255
CMD_MIN_LENGTH == 5
CMD_MAX_LENGTH == 5 + U8_MAX
RESP_MIN_LENGTH == 2
RESP_MAX_LENGTH == 2 + U8_MAX

----------------------------------------------------------------------------
(* Values *)

None == [some |-> FALSE]
Some(v) == [some |-> TRUE, val |-> v]

\* a component that a specification does not exercise stays idle
CmdIdle == command = None /\ frame = None /\ cmdLog = <<>> /\ expected = None
RespIdle == response = None /\ reply = None /\ respLog = <<>>
AtrIdle == atr = <<>> /\ atrRes = None
InfoIdle == status = <<"Success">> /\ infoLog = <<>>
TagIdle == tag = [pc |-> "idle"]
ReaderIdle == reader = [is_alive |-> FALSE] /\ readerLog = <<>>

Ok(v) == [tag |-> "Ok", val |-> v]
Err(e) == [tag |-> "Err", err |-> e]
Panic == [tag |-> "Panic"]

Take(s, n) == SubSeq(s, 1, n)
Drop(s, n) == SubSeq(s, n + 1, Len(s))
Pattern(n, seed) == [i \in 1..n |-> (seed + i) % 256]
ShortSeqs(S, n) == UNION {[1..k -> S] : k \in 0..n}

\* value[i] of a Rust slice (0-based); callers check InBounds first
At(value, i) == value[i + 1]
InBounds(value, i) == i < Len(value)

----------------------------------------------------------------------------
(* KeyType <-> u8 *)

\* mutant: the 0x61 arm yields MifareA
KeyTypeFromU8Typo(value) ==
    CASE value = 96 -> <<"MifareA">>
      [] value = 97 -> <<"MifareA">>
      [] OTHER -> <<"Unknown", value>>

KeyTypeFromU8(value) ==
    CASE value = 96 -> <<"MifareA">>
      [] value = 97 -> <<"MifareB">>
      [] OTHER -> <<"Unknown", value>>

KeyTypeToU8(value) ==
    CASE value[1] = "Unknown" -> value[2]
      [] value[1] = "MifareA" -> 96
      [] value[1] = "MifareB" -> 97

----------------------------------------------------------------------------
(* PcscCommand *)

GetData(le) == [tag |-> "GetData", le |-> le]
LoadKeys(data) == [tag |-> "LoadKeys", data |-> data]
GeneralAuthenticate(address, key_type, key_id) ==
    [tag |-> "GeneralAuthenticate", address |-> address,
     key_type |-> key_type, key_id |-> key_id]
Verify(data) == [tag |-> "Verify", data |-> data]
ReadBinary(le) == [tag |-> "ReadBinary", le |-> le]
UpdateBinary(data) == [tag |-> "UpdateBinary", data |-> data]

PcscCommand(ins, p1, p2) == [ins |-> ins, p1 |-> p1, p2 |-> p2]

ins_code(value) ==
    CASE value.ins.tag = "GetData" -> 202              \* 0xCA
      [] value.ins.tag = "LoadKeys" -> 130             \* 0x82
      [] value.ins.tag = "GeneralAuthenticate" -> 134  \* 0x86
      [] value.ins.tag = "Verify" -> 32                \* 0x20
      [] value.ins.tag = "ReadBinary" -> 176           \* 0xB0
      [] value.ins.tag = "UpdateBinary" -> 214         \* 0xD6

\* mutant: le == 0 is not taken as "the maximum"
expected_response_lenNoMax(value) ==
    IF value.ins.tag \in {"GetData", "ReadBinary"}
    THEN value.ins.le + 2
    ELSE 2

\* PcscCommand::expected_response_len
expected_response_len(value) ==
    IF value.ins.tag \in {"GetData", "ReadBinary"}
    THEN IF value.ins.le = 0 THEN RESP_MAX_LENGTH ELSE value.ins.le + 2
    ELSE 2

U16FromBeBytes(hi, lo) == hi * 256 + lo
U16ToBeBytes(v) == <<v \div 256, v % 256>>

\* the instruction selected by value[1], for a frame that passed the checks
DecodeInstruction(value) ==
    CASE At(value, 1) = 202 -> Ok(GetData(At(value, 4)))
      [] At(value, 1) = 130 -> Ok(LoadKeys(Drop(value, 5)))
      [] At(value, 1) = 134 ->
            IF InBounds(value, 6) /\ InBounds(value, 7)
               /\ InBounds(value, 8) /\ InBounds(value, 9)
            THEN Ok(GeneralAuthenticate(
                        U16FromBeBytes(At(value, 6), At(value, 7)),
                        KeyTypeFromU8(At(value, 8)),
                        At(value, 9)))
            ELSE Panic  \* index out of bounds
      [] At(value, 1) = 32 -> Ok(Verify(Drop(value, 5)))
      [] At(value, 1) = 176 -> Ok(ReadBinary(At(value, 4)))
      [] At(value, 1) = 214 -> Ok(UpdateBinary(Drop(value, 5)))
      [] OTHER -> Panic  \* todo!()

\* mutant: the class byte is checked before the upper length limit
CommandTryFromClassFirst(value) ==
    IF Len(value) < CMD_MIN_LENGTH THEN Err("TooShort")
    ELSE IF At(value, 0) # 255 THEN Err("WrongClass")
    ELSE IF Len(value) > CMD_MAX_LENGTH THEN Err("TooLong")
    ELSE LET ins == DecodeInstruction(value)
         IN  IF ins.tag = "Ok"
             THEN Ok(PcscCommand(ins.val, At(value, 2), At(value, 3)))
             ELSE ins

\* impl TryFrom<&[u8]> for PcscCommand
CommandTryFrom(value) ==
    IF Len(value) < CMD_MIN_LENGTH THEN Err("TooShort")
    ELSE IF Len(value) > CMD_MAX_LENGTH THEN Err("TooLong")
    ELSE IF At(value, 0) # 255 THEN Err("WrongClass")
    ELSE LET ins == DecodeInstruction(value)
         IN  IF ins.tag = "Ok"
             THEN Ok(PcscCommand(ins.val, At(value, 2), At(value, 3)))
             ELSE ins

\* mutant: a payload of exactly 255 bytes is rejected
LcTooLongOffByOne(lc) == lc >= U8_MAX

\* the length check on the payload of LoadKeys / Verify / UpdateBinary
LcTooLong(lc) == lc > U8_MAX

\* impl TryFrom<PcscCommand> for Vec<u8>
CommandToBytes(value) ==
    LET ins == ins_code(value)
    IN  CASE value.ins.tag \in {"GetData", "ReadBinary"} ->
                Ok(<<255, ins, value.p1, value.p2, value.ins.le>>)
          [] value.ins.tag \in {"LoadKeys", "Verify", "UpdateBinary"} ->
                LET lc == Len(value.ins.data)
                IN  IF LcTooLong(lc) THEN Err("TooLong")
                    ELSE Ok(<<255, 130, value.p1, value.p2, lc % 256>>
                            \o value.ins.data)
          [] value.ins.tag = "GeneralAuthenticate" ->
                LET addr == U16ToBeBytes(value.ins.address)
                IN  Ok(<<255, 134, value.p1, value.p2, 5, 1,
                         addr[1], addr[2],
                         KeyTypeToU8(value.ins.key_type),
                         value.ins.key_id>>)

----------------------------------------------------------------------------
(* Inputs of the command codec *)

DataBytes == {0, 255}
ParamBytes == {0, 1, 255}
LongLens == (U8_MAX - 1)..(U8_MAX + MaxOver)
Payloads == ShortSeqs(DataBytes, MaxData) \cup {Pattern(n, 0) : n \in LongLens}
Addresses == {0, 1, 256, 24673, 65535}
KeyTypes == {<<"MifareA">>, <<"MifareB">>}
            \cup {<<"Unknown", b>> : b \in {0, 96, 97, 255}}
KeyIds == {0, 255}

Instructions ==
    {GetData(le) : le \in ParamBytes}
    \cup {ReadBinary(le) : le \in ParamBytes}
    \cup {LoadKeys(d) : d \in Payloads}
    \cup {Verify(d) : d \in Payloads}
    \cup {UpdateBinary(d) : d \in Payloads}
    \cup {GeneralAuthenticate(a, k, i) :
            a \in Addresses, k \in KeyTypes, i \in KeyIds}

Commands == {PcscCommand(i, p1, p2) :
                i \in Instructions, p1 \in ParamBytes, p2 \in ParamBytes}

ClassBytes == {255, 0, 254}
KnownIns == {202, 130, 134, 32, 176, 214}
InsBytes == KnownIns \cup {0, 136, 255}
TailSeeds == {0, 91, 92}
FrameLens == 0..(CMD_MIN_LENGTH + MaxTail)
             \cup (CMD_MAX_LENGTH - 1)..(CMD_MAX_LENGTH + MaxOver)
Frames == {Take(<<c, i, p1, 1>> \o Pattern(CMD_MAX_LENGTH + MaxOver, s), n) :
            c \in ClassBytes, i \in InsBytes, p1 \in {0, 255},
            s \in TailSeeds, n \in FrameLens}

----------------------------------------------------------------------------
(* The command codec driven as a state machine *)

Panicked(log) == log # <<>> /\ log[Len(log)].res.tag = "Panic"

InitCommand ==
    /\ \/ command \in {Some(c) : c \in Commands} /\ frame = None
       \/ command = None /\ frame \in {Some(f) : f \in Frames}
    /\ cmdLog = <<>> /\ expected = None
    /\ RespIdle /\ AtrIdle /\ InfoIdle /\ TagIdle /\ ReaderIdle

\* let bytes: Vec<u8> = command.try_into()  -- the command is moved
EncodeCommand ==
    /\ command.some /\ Len(cmdLog) < MaxOps /\ ~Panicked(cmdLog)
    /\ LET res == CommandToBytes(command.val)
       IN  /\ cmdLog' = Append(cmdLog,
                    [op |-> "encode", cmd |-> command.val, res |-> res])
           /\ frame' = IF res.tag = "Ok" THEN Some(res.val) ELSE frame
    /\ command' = None
    /\ UNCHANGED <<expected, respVars, atrVars, infoVars, tag, readerVars>>

\* let command = PcscCommand::try_from(&bytes[..])  -- the frame is borrowed
DecodeCommand ==
    /\ frame.some /\ Len(cmdLog) < MaxOps /\ ~Panicked(cmdLog)
    /\ LET res == CommandTryFrom(frame.val)
       IN  /\ cmdLog' = Append(cmdLog,
                    [op |-> "decode", bytes |-> frame.val, res |-> res])
           /\ command' = IF res.tag = "Ok" THEN Some(res.val) ELSE command
    /\ UNCHANGED <<frame, expected>>
    /\ UNCHANGED <<respVars, atrVars, infoVars, tag, readerVars>>

\* let n = command.expected_response_len()  -- the command is borrowed
ExpectedResponseLen ==
    /\ command.some /\ ~Panicked(cmdLog)
    /\ expected' = Some([cmd |-> command.val,
                         len |-> expected_response_len(command.val)])
    /\ UNCHANGED <<command, frame, cmdLog>>
    /\ UNCHANGED <<respVars, atrVars, infoVars, tag, readerVars>>

NextCommand == EncodeCommand \/ DecodeCommand \/ ExpectedResponseLen

SpecCommand == InitCommand /\ [][NextCommand]_vars

----------------------------------------------------------------------------
(* PcscStatusWords and PcscResponse *)

PcscResponse(data, sw) == [data |-> data, sw |-> sw]

\* mutant: 0x90 is Success only with SW2 = 0x00
StatusWordsFromStrictSuccess(sw1, sw2) ==
    CASE sw1 = 98 -> <<"Warning", sw2>>
      [] sw1 = 99 -> <<"AllowedRetries", sw2>>
      [] sw1 = 101 -> <<"MemoryFailure", sw2>>
      [] sw1 = 103 -> <<"WrongLength">>
      [] sw1 = 104 -> <<"WrongClassByte">>
      [] sw1 = 105 -> <<"CommandImpossible", sw2>>
      [] sw1 = 106 -> <<"CommandError", sw2>>
      [] sw1 = 107 -> <<"WrongParameter">>
      [] sw1 = 108 -> <<"WrongLengthLe", sw2>>
      [] sw1 = 144 /\ sw2 = 0 -> <<"Success">>
      [] OTHER -> <<"Unknown", sw1, sw2>>

\* the match on value[eod] in PcscResponse::try_from
StatusWordsFrom(sw1, sw2) ==
    CASE sw1 = 98 -> <<"Warning", sw2>>             \* 0x62
      [] sw1 = 99 -> <<"AllowedRetries", sw2>>      \* 0x63
      [] sw1 = 101 -> <<"MemoryFailure", sw2>>      \* 0x65
      [] sw1 = 103 -> <<"WrongLength">>             \* 0x67
      [] sw1 = 104 -> <<"WrongClassByte">>          \* 0x68
      [] sw1 = 105 -> <<"CommandImpossible", sw2>>  \* 0x69
      [] sw1 = 106 -> <<"CommandError", sw2>>       \* 0x6A
      [] sw1 = 107 -> <<"WrongParameter">>          \* 0x6B
      [] sw1 = 108 -> <<"WrongLengthLe", sw2>>      \* 0x6C
      [] sw1 = 144 -> <<"Success">>                 \* 0x90
      [] OTHER -> <<"Unknown", sw1, sw2>>

\* mutant: the payload slice ends one byte late
ResponseTryFromLongSlice(value) ==
    IF Len(value) \in {0, 1} THEN Err("TooShort")
    ELSE LET len == Len(value)
             data == IF len = RESP_MIN_LENGTH THEN <<>> ELSE Take(value, len - 1)
             eod == IF len = RESP_MIN_LENGTH THEN 0 ELSE len - 2
         IN  Ok(PcscResponse(data,
                    StatusWordsFrom(At(value, eod), At(value, eod + 1))))

\* impl TryFrom<&[u8]> for PcscResponse
ResponseTryFrom(value) ==
    IF Len(value) \in {0, 1} THEN Err("TooShort")
    ELSE LET len == Len(value)
             data == IF len = RESP_MIN_LENGTH THEN <<>> ELSE Take(value, len - 2)
             eod == IF len = RESP_MIN_LENGTH THEN 0 ELSE len - 2
         IN  Ok(PcscResponse(data,
                    StatusWordsFrom(At(value, eod), At(value, eod + 1))))

\* mutant: WrongLengthLe loses its sub-code
StatusWordsToBytesDropsLe(sw) ==
    CASE sw[1] = "Warning" -> <<98, sw[2]>>
      [] sw[1] = "AllowedRetries" -> <<99, sw[2]>>
      [] sw[1] = "MemoryFailure" -> <<101, sw[2]>>
      [] sw[1] = "WrongLength" -> <<103, 0>>
      [] sw[1] = "WrongClassByte" -> <<104, 0>>
      [] sw[1] = "CommandImpossible" -> <<105, sw[2]>>
      [] sw[1] = "CommandError" -> <<106, sw[2]>>
      [] sw[1] = "WrongParameter" -> <<107, 0>>
      [] sw[1] = "WrongLengthLe" -> <<108, 0>>
      [] sw[1] = "Success" -> <<144, 0>>
      [] sw[1] = "Unknown" -> <<sw[2], sw[3]>>

\* the match on value.sw in From<PcscResponse> for Vec<u8>
StatusWordsToBytes(sw) ==
    CASE sw[1] = "Warning" -> <<98, sw[2]>>
      [] sw[1] = "AllowedRetries" -> <<99, sw[2]>>
      [] sw[1] = "MemoryFailure" -> <<101, sw[2]>>
      [] sw[1] = "WrongLength" -> <<103, 0>>
      [] sw[1] = "WrongClassByte" -> <<104, 0>>
      [] sw[1] = "CommandImpossible" -> <<105, sw[2]>>
      [] sw[1] = "CommandError" -> <<106, sw[2]>>
      [] sw[1] = "WrongParameter" -> <<107, 0>>
      [] sw[1] = "WrongLengthLe" -> <<108, sw[2]>>
      [] sw[1] = "Success" -> <<144, 0>>
      [] sw[1] = "Unknown" -> <<sw[2], sw[3]>>

\* mutant: the status word is written before the payload
ResponseToBytesStatusFirst(value) == StatusWordsToBytes(value.sw) \o value.data

\* impl From<PcscResponse> for Vec<u8>
ResponseToBytes(value) == value.data \o StatusWordsToBytes(value.sw)

----------------------------------------------------------------------------
(* Inputs of the response codec *)

AllBytes == 0..255
SubCodes == {0, 1, 130, 255}
FamilyCodes == {98, 99, 101, 103, 104, 105, 106, 107, 108, 144}
StatusValues ==
    {<<f, sw2>> : f \in {"Warning", "AllowedRetries", "MemoryFailure",
                         "CommandImpossible", "CommandError", "WrongLengthLe"},
                  sw2 \in SubCodes}
    \cup {<<"WrongLength">>, <<"WrongClassByte">>, <<"WrongParameter">>,
          <<"Success">>}
    \cup {<<"Unknown", sw1, sw2>> : sw1 \in AllBytes, sw2 \in {0, 130}}
RespPayloads == ShortSeqs({7}, MaxData) \cup {Pattern(n, 0) : n \in LongLens}
Responses == {PcscResponse(d, sw) : d \in RespPayloads, sw \in StatusValues}
Replies ==
    {<<>>} \cup {<<b>> : b \in {0, 144}}
    \cup {d \o <<sw1, sw2>> : d \in RespPayloads, sw1 \in AllBytes,
                              sw2 \in {0, 130}}

----------------------------------------------------------------------------
(* The response codec driven as a state machine *)

InitResponse ==
    /\ \/ response \in {Some(r) : r \in Responses} /\ reply = None
       \/ response = None /\ reply \in {Some(b) : b \in Replies}
    /\ respLog = <<>>
    /\ CmdIdle /\ AtrIdle /\ InfoIdle /\ TagIdle /\ ReaderIdle

\* let bytes: Vec<u8> = response.into()  -- the response is moved
EncodeResponse ==
    /\ response.some /\ Len(respLog) < MaxOps
    /\ LET res == Ok(ResponseToBytes(response.val))
       IN  /\ respLog' = Append(respLog,
                    [op |-> "encode", resp |-> response.val, res |-> res])
           /\ reply' = Some(res.val)
    /\ response' = None
    /\ UNCHANGED <<cmdVars, atrVars, infoVars, tag, readerVars>>

\* let response = PcscResponse::try_from(&bytes[..])  -- the reply is borrowed
DecodeResponse ==
    /\ reply.some /\ Len(respLog) < MaxOps
    /\ LET res == ResponseTryFrom(reply.val)
       IN  /\ respLog' = Append(respLog,
                    [op |-> "decode", bytes |-> reply.val, res |-> res])
           /\ response' = IF res.tag = "Ok" THEN Some(res.val) ELSE response
    /\ UNCHANGED reply
    /\ UNCHANGED <<cmdVars, atrVars, infoVars, tag, readerVars>>

NextResponse == EncodeResponse \/ DecodeResponse

SpecResponse == InitResponse /\ [][NextResponse]_vars

----------------------------------------------------------------------------
(* Claims about the command codec, checked under SpecCommand *)

IsEncode(log, i) == log[i].op = "encode"
IsDecode(log, i) == log[i].op = "decode"

\* C1: decoding the bytes encode produced for a command yields that command:
\* decode(encode(command)) == command, for all six instruction variants.
C1_CommandRoundTrip ==
    \A i \in 1..(Len(cmdLog) - 1) :
        (IsEncode(cmdLog, i) /\ cmdLog[i].res.tag = "Ok" /\ IsDecode(cmdLog, i + 1))
            => cmdLog[i + 1].res = Ok(cmdLog[i].cmd)

\* C2: every encoded command is [0xFF, instruction code, P1, P2, ...] where the
\* instruction code is the one fixed by the variant and returned by ins_code().
C2_EncodedLayout ==
    \A i \in 1..Len(cmdLog) :
        (IsEncode(cmdLog, i) /\ cmdLog[i].res.tag = "Ok") =>
            LET c == cmdLog[i].cmd
                b == cmdLog[i].res.val
                code == CASE c.ins.tag = "GetData" -> 202
                          [] c.ins.tag = "LoadKeys" -> 130
                          [] c.ins.tag = "GeneralAuthenticate" -> 134
                          [] c.ins.tag = "Verify" -> 32
                          [] c.ins.tag = "ReadBinary" -> 176
                          [] c.ins.tag = "UpdateBinary" -> 214
            IN  /\ Len(b) >= 5
                /\ b[1] = 255
                /\ b[2] = code
                /\ b[2] = ins_code(c)
                /\ b[3] = c.p1
                /\ b[4] = c.p2

\* C3: for every byte sequence b that encode produced, decode(b) succeeds and
\* encoding the decoded command gives b back: encode(decode(b)) == b.
C3_EncodeDecodeEncode ==
    /\ \A i \in 1..(Len(cmdLog) - 1) :
          (IsEncode(cmdLog, i) /\ cmdLog[i].res.tag = "Ok" /\ IsDecode(cmdLog, i + 1))
              => cmdLog[i + 1].res.tag = "Ok"
    /\ \A i \in 1..(Len(cmdLog) - 2) :
          (/\ IsEncode(cmdLog, i) /\ cmdLog[i].res.tag = "Ok"
           /\ IsDecode(cmdLog, i + 1) /\ IsEncode(cmdLog, i + 2))
              => cmdLog[i + 2].res = Ok(cmdLog[i].res.val)

\* C3 witness: a GeneralAuthenticate command with key type MifareB was encoded,
\* the bytes decoded and the decoded command encoded again.
C3_Witness ==
    /\ Len(cmdLog) = 3
    /\ IsEncode(cmdLog, 1) /\ IsDecode(cmdLog, 2) /\ IsEncode(cmdLog, 3)
    /\ cmdLog[1].cmd.ins.tag = "GeneralAuthenticate"
    /\ cmdLog[1].cmd.ins.key_type = <<"MifareB">>
    /\ cmdLog[3].res.tag = "Ok"
    /\ Len(cmdLog[3].res.val) = 10

\* C4: command decode fails with TooShort below 5 bytes, with TooLong above 260
\* bytes, and with WrongClass for 5..260 bytes whose byte[0] is not 0xFF.
C4_DecodeErrorOrder ==
    \A i \in 1..Len(cmdLog) :
        IsDecode(cmdLog, i) =>
            LET b == cmdLog[i].bytes
                r == cmdLog[i].res
            IN  /\ Len(b) < 5 => r = Err("TooShort")
                /\ Len(b) > 260 => r = Err("TooLong")
                /\ (Len(b) >= 5 /\ Len(b) <= 260 /\ b[1] # 255)
                        => r = Err("WrongClass")

\* C4 witness: a frame longer than 260 bytes with a wrong class byte was decoded
\* and classified by its length.
C4_Witness ==
    \E i \in 1..Len(cmdLog) :
        /\ IsDecode(cmdLog, i)
        /\ Len(cmdLog[i].bytes) = 261
        /\ cmdLog[i].bytes[1] # 255
        /\ cmdLog[i].res = Err("TooLong")

\* C5: command decode of a 5..260-byte frame with class 0xFF and an instruction
\* code outside the known six returns the error UnknownInstruction.
C5_UnknownInstruction ==
    \A i \in 1..Len(cmdLog) :
        (/\ IsDecode(cmdLog, i)
         /\ Len(cmdLog[i].bytes) >= 5 /\ Len(cmdLog[i].bytes) <= 260
         /\ cmdLog[i].bytes[1] = 255
         /\ cmdLog[i].bytes[2] \notin {202, 130, 134, 32, 176, 214})
            => cmdLog[i].res = Err("UnknownInstruction")

\* C6: encoding LoadKeys / Verify / UpdateBinary fails with TooLong exactly when
\* the payload is longer than 255 bytes; a payload of N <= 255 bytes encodes to
\* 5+N bytes whose fifth byte is N, followed by the payload unchanged.
C6_PayloadLength ==
    \A i \in 1..Len(cmdLog) :
        (/\ IsEncode(cmdLog, i)
         /\ cmdLog[i].cmd.ins.tag \in {"LoadKeys", "Verify", "UpdateBinary"}) =>
            LET data == cmdLog[i].cmd.ins.data
                r == cmdLog[i].res
            IN  /\ (r = Err("TooLong")) <=> (Len(data) > 255)
                /\ Len(data) <= 255 =>
                        /\ r.tag = "Ok"
                        /\ Len(r.val) = 5 + Len(data)
                        /\ r.val[5] = Len(data)
                        /\ Drop(r.val, 5) = data

\* C6 witness: an UpdateBinary command with a payload of exactly 255 bytes was
\* encoded successfully.
C6_Witness ==
    \E i \in 1..Len(cmdLog) :
        /\ IsEncode(cmdLog, i)
        /\ cmdLog[i].cmd.ins.tag = "UpdateBinary"
        /\ Len(cmdLog[i].cmd.ins.data) = 255
        /\ cmdLog[i].res.tag = "Ok"
        /\ Len(cmdLog[i].res.val) = 260

----------------------------------------------------------------------------
(* Claims about the response codec, checked under SpecResponse *)

\* the last two bytes of a reply of at least two bytes
Sw1Of(b) == b[Len(b) - 1]
Sw2Of(b) == b[Len(b)]

\* C7 as stated: decode(encode(response)) == response for every response,
\* including Unknown(sw1, sw2) for every sw1.
C7_ResponseRoundTripAll ==
    \A i \in 1..(Len(respLog) - 1) :
        (IsEncode(respLog, i) /\ IsDecode(respLog, i + 1))
            => respLog[i + 1].res = Ok(respLog[i].resp)

\* C7 amended: decode(encode(response)) == response for every response whose
\* status is not Unknown(sw1, _) with sw1 one of the ten family codes.
C7_ResponseRoundTrip ==
    \A i \in 1..(Len(respLog) - 1) :
        (/\ IsEncode(respLog, i) /\ IsDecode(respLog, i + 1)
         /\ ~(/\ respLog[i].resp.sw[1] = "Unknown"
              /\ respLog[i].resp.sw[2] \in
                    {98, 99, 101, 103, 104, 105, 106, 107, 108, 144}))
            => respLog[i + 1].res = Ok(respLog[i].resp)

\* C7 witness: a response with a payload and status Unknown(0x91, 0x82) was
\* encoded and decoded back.
C7_Witness ==
    /\ Len(respLog) >= 2
    /\ IsEncode(respLog, 1) /\ IsDecode(respLog, 2)
    /\ respLog[1].resp.sw = <<"Unknown", 145, 130>>
    /\ Len(respLog[1].resp.data) > 0
    /\ respLog[2].res.tag = "Ok"

\* C8: response decode fails with TooShort below 2 bytes; for n >= 2 bytes it
\* succeeds with payload bytes[0 .. n-2] and the status word of the last two
\* bytes, so payload.length + 2 == n.
C8_ResponseSplit ==
    \A i \in 1..Len(respLog) :
        IsDecode(respLog, i) =>
            LET b == respLog[i].bytes
                r == respLog[i].res
            IN  /\ Len(b) < 2 => r = Err("TooShort")
                /\ Len(b) >= 2 =>
                        /\ r.tag = "Ok"
                        /\ r.val.data = SubSeq(b, 1, Len(b) - 2)
                        /\ Len(r.val.data) + 2 = Len(b)
                        /\ r.val.sw = StatusWordsFrom(Sw1Of(b), Sw2Of(b))

\* C8 witness: a reply of 258 bytes was decoded into a 256-byte payload.
C8_Witness ==
    \E i \in 1..Len(respLog) :
        /\ IsDecode(respLog, i)
        /\ Len(respLog[i].bytes) = 258
        /\ respLog[i].res.tag = "Ok"
        /\ Len(respLog[i].res.val.data) = 256

\* C9: the decoded status is a switch on SW1 alone: the ten family codes give
\* their family (with SW2 where the family has sub-codes), 0x90 is Success for
\* every SW2, and every other SW1 gives Unknown(sw1, sw2).
C9_StatusSwitch ==
    \A i \in 1..Len(respLog) :
        (IsDecode(respLog, i) /\ Len(respLog[i].bytes) >= 2) =>
            LET sw1 == Sw1Of(respLog[i].bytes)
                sw2 == Sw2Of(respLog[i].bytes)
                sw == respLog[i].res.val.sw
            IN  /\ sw1 = 98 => sw = <<"Warning", sw2>>
                /\ sw1 = 99 => sw = <<"AllowedRetries", sw2>>
                /\ sw1 = 101 => sw = <<"MemoryFailure", sw2>>
                /\ sw1 = 103 => sw = <<"WrongLength">>
                /\ sw1 = 104 => sw = <<"WrongClassByte">>
                /\ sw1 = 105 => sw = <<"CommandImpossible", sw2>>
                /\ sw1 = 106 => sw = <<"CommandError", sw2>>
                /\ sw1 = 107 => sw = <<"WrongParameter">>
                /\ sw1 = 108 => sw = <<"WrongLengthLe", sw2>>
                /\ sw1 = 144 => sw = <<"Success">>
                /\ sw1 \notin {98, 99, 101, 103, 104, 105, 106, 107, 108, 144}
                        => sw = <<"Unknown", sw1, sw2>>

\* C9 witness: a reply ending in 0x90 0x82 was decoded to Success.
C9_Witness ==
    \E i \in 1..Len(respLog) :
        /\ IsDecode(respLog, i)
        /\ Len(respLog[i].bytes) >= 2
        /\ Sw1Of(respLog[i].bytes) = 144
        /\ Sw2Of(respLog[i].bytes) = 130
        /\ respLog[i].res = Ok(PcscResponse(SubSeq(respLog[i].bytes, 1,
                                    Len(respLog[i].bytes) - 2), <<"Success">>))

\* C10: for a reply b of at least 2 bytes, encode(decode(b)) is b with SW2
\* replaced by 0x00 when SW1 is 0x67, 0x68, 0x6B or 0x90, and is b otherwise.
C10_ReencodeCanonical ==
    \A i \in 1..(Len(respLog) - 1) :
        (/\ IsDecode(respLog, i) /\ Len(respLog[i].bytes) >= 2
         /\ IsEncode(respLog, i + 1)) =>
            LET b == respLog[i].bytes
            IN  respLog[i + 1].res =
                    Ok(IF Sw1Of(b) \in {103, 104, 107, 144}
                       THEN SubSeq(b, 1, Len(b) - 1) \o <<0>>
                       ELSE b)

\* C10 witness: a reply with a payload ending in 0x67 0x82 was decoded and
\* encoded again.
C10_Witness ==
    \E i \in 1..(Len(respLog) - 1) :
        /\ IsDecode(respLog, i) /\ IsEncode(respLog, i + 1)
        /\ Len(respLog[i].bytes) > 2
        /\ Sw1Of(respLog[i].bytes) = 103
        /\ Sw2Of(respLog[i].bytes) = 130
        /\ respLog[i + 1].res.val # respLog[i].bytes

\* C11: a response frame is at most 257 bytes: response decode of an input
\* longer than 257 bytes (PcscResponse::MAX_LENGTH) fails with TooLong.
C11_ResponseTooLong ==
    \A i \in 1..Len(respLog) :
        (IsDecode(respLog, i) /\ Len(respLog[i].bytes) > 257)
            => respLog[i].res = Err("TooLong")

----------------------------------------------------------------------------
(* Further claims about the command codec, checked under SpecCommand *)

\* C18: command decode never reads past the end of its input: for a frame of
\* 5..9 bytes with class 0xFF and instruction 0x86 it returns a Command or a
\* codec error.
C18_NoReadPastEnd ==
    \A i \in 1..Len(cmdLog) :
        (/\ IsDecode(cmdLog, i)
         /\ Len(cmdLog[i].bytes) >= 5 /\ Len(cmdLog[i].bytes) <= 9
         /\ cmdLog[i].bytes[1] = 255
         /\ cmdLog[i].bytes[2] = 134)
            => cmdLog[i].res.tag \in {"Ok", "Err"}

----------------------------------------------------------------------------
(* ATR classification (src/src/atr.rs) *)

STORAGE_CARD_RID == <<160, 0, 0, 3, 6>>

\* the codes of enum Standard (#[repr(u8)]); a Standard is its code
StandardCodes == {0, 1, 2, 3, 5, 6, 7, 9, 10, 11, 12, 13, 14, 15, 16, 17, 64}

\* the codes of enum CardName (#[repr(u16)]); a CardName is its code
CardNameCodes == (0..61) \ {5}

\* Standard::try_from(value).ok()
StandardTryFrom(value) == IF value \in StandardCodes THEN Some(value) ELSE None

\* CardName::try_from(value).ok()
CardNameTryFrom(value) == IF value \in CardNameCodes THEN Some(value) ELSE None

\* atr.get(i)
Get(s, i) == IF i < Len(s) THEN Some(s[i + 1]) ELSE None

\* atr.get(a..b)
GetRange(s, a, b) == IF b <= Len(s) THEN Some(SubSeq(s, a + 1, b)) ELSE None

\* <[u8; 2]>::try_from(bytes): only a slice of exactly two bytes converts
TryIntoArray2(bytes) == IF Len(bytes) = 2 THEN Ok(bytes) ELSE Err("TryFromSliceError")

Classified(family, standard, card_name) ==
    Ok([family |-> family, standard |-> standard, card_name |-> card_name])

\* the arm (_, Some(0x4f)) of parse_atr
StorageCardPerSpec(s) ==
    IF GetRange(s, 7, 12) = Some(STORAGE_CARD_RID)
    THEN LET ss == Get(s, 13)
             standard == IF ss.some THEN StandardTryFrom(ss.val) ELSE None
             nn == GetRange(s, 14, 15)
             arr == IF nn.some THEN TryIntoArray2(nn.val) ELSE Err("absent")
         IN  IF nn.some /\ arr.tag # "Ok"
             THEN Panic  \* unwrap() of Err(TryFromSliceError)
             ELSE Classified(Some("StorageCard"), standard,
                    IF nn.some
                    THEN CardNameTryFrom(U16FromBeBytes(arr.val[1], arr.val[2]))
                    ELSE None)
    ELSE Classified(Some("StorageCard"), None, None)

parse_atr(s) ==
    LET head == GetRange(s, 0, 5)
    IN  IF head.some /\ head.val[1] = 59 /\ head.val[3] = 128
           /\ head.val[4] = 1 /\ head.val[5] = 128
        THEN LET len == head.val[2]
                 b5 == Get(s, 5)
             IN  IF b5 = Some(79) THEN StorageCardPerSpec(s)
                 ELSE IF len = 129 /\ b5 = Some(128)
                      THEN Classified(Some("StorageCard"), None, None)
                 ELSE Classified(None, None, None)
        ELSE IF head.some /\ head.val[1] = 59 /\ head.val[3] = 128
                /\ head.val[4] = 1
             THEN Classified(Some("Iso14443_4"), None, None)
        ELSE Classified(None, None, None)

(* Inputs of the ATR classifier *)

AtrFull(h, rid, ss, nn) ==
    h \o <<12>> \o rid \o <<0, ss>> \o nn \o Pattern(MaxOver, 0)
AtrHeaders ==
    {<<b0, len, b23[1], b23[2], b4, b5>> :
        b0 \in {59, 0}, len \in {129, 143},
        b23 \in {<<128, 1>>, <<128, 0>>, <<0, 1>>},
        b4 \in {128, 0}, b5 \in {79, 128, 12}}
AtrRids == {STORAGE_CARD_RID, <<160, 0, 0, 3, 7>>}
AtrStandards == {0, 3, 4, 64, 255}
AtrNames == {<<0, 1>>, <<0, 5>>, <<0, 61>>, <<0, 62>>, <<1, 1>>}
AtrLens == 0..(16 + MaxOver)
Atrs ==
    {Take(AtrFull(h, STORAGE_CARD_RID, 3, <<0, 1>>), n) :
        h \in AtrHeaders, n \in AtrLens}
    \cup {Take(AtrFull(<<59, len, 128, 1, 128, 79>>, rid, ss, nn), n) :
        len \in {129, 143}, rid \in AtrRids, ss \in AtrStandards,
        nn \in AtrNames, n \in AtrLens}

(* The classifier driven as a state machine *)

InitAtr ==
    /\ atr \in Atrs /\ atrRes = None
    /\ CmdIdle /\ RespIdle /\ InfoIdle /\ TagIdle /\ ReaderIdle

\* let (family, standard, card_name) = parse_atr(&atr)
ParseAtr ==
    /\ ~atrRes.some
    /\ atrRes' = Some(parse_atr(atr))
    /\ UNCHANGED <<atr, cmdVars, respVars, infoVars, tag, readerVars>>

NextAtr == ParseAtr

SpecAtr == InitAtr /\ [][NextAtr]_vars

(* Claims about the ATR classifier, checked under SpecAtr *)

\* bytes[0..5] of the ATR match [0x3B, *, 0x80, 0x01, *]
AtrTemplate(s) == Len(s) >= 5 /\ s[1] = 59 /\ s[3] = 128 /\ s[4] = 1

\* C12: ATR classification is total: for every byte sequence parse_atr
\* returns a (family, standard, chip model) triple and never aborts.
C12_ParseAtrTotal ==
    atrRes.some => atrRes.val.tag = "Ok"

\* C13: for an ATR of at least 16 bytes matching the storage-card template
\* with byte[5] = 0x4F and the storage-card RID at bytes[7..12], the standard
\* is the Standard with code byte[13] and the chip model the CardName with
\* code byte[14] * 256 + byte[15], each none when the code is unknown.
C13_StandardAndModel ==
    (/\ atrRes.some
     /\ Len(atr) >= 16 /\ AtrTemplate(atr) /\ atr[5] = 128 /\ atr[6] = 79
     /\ SubSeq(atr, 8, 12) = <<160, 0, 0, 3, 6>>) =>
        /\ atrRes.val.tag = "Ok"
        /\ atrRes.val.val.standard =
                (IF atr[14] \in StandardCodes THEN Some(atr[14]) ELSE None)
        /\ atrRes.val.val.card_name =
                (IF atr[15] * 256 + atr[16] \in CardNameCodes
                 THEN Some(atr[15] * 256 + atr[16]) ELSE None)

\* C14: the family is StorageCard when bytes[0..5] match
\* [0x3B, *, 0x80, 0x01, 0x80] and byte[5] is 0x4F, or byte[5] is 0x80 with
\* byte[1] = 0x81; Iso14443-4 (standard, model none) when bytes[0..5] match
\* [0x3B, *, 0x80, 0x01, x] with x # 0x80; none (standard, model none) for
\* every other input.
C14_Family ==
    atrRes.some =>
        LET storage == /\ AtrTemplate(atr) /\ atr[5] = 128 /\ Len(atr) >= 6
                       /\ \/ atr[6] = 79
                          \/ atr[6] = 128 /\ atr[2] = 129
            iso == AtrTemplate(atr) /\ atr[5] # 128
        IN  /\ atrRes.val.tag = "Ok"
            /\ storage => atrRes.val.val.family = Some("StorageCard")
            /\ iso => atrRes.val.val =
                        [family |-> Some("Iso14443_4"), standard |-> None,
                         card_name |-> None]
            /\ (~storage /\ ~iso) => atrRes.val.val =
                        [family |-> None, standard |-> None, card_name |-> None]

----------------------------------------------------------------------------
(* PcscStatusWords::extra_info (src/src/command.rs) *)

\* the arm Warning(sw2): match sw2
WarningInfo(sw2) ==
    CASE sw2 = 129 -> Some("ResponseCorrupted")
      [] sw2 = 130 -> Some("UnexpectedEndOfData")
      [] OTHER -> None

\* the arm MemoryFailure(sw2): match (ins, sw2)
MemoryFailureInfo(ins, sw2) ==
    CASE ins = 202 /\ sw2 = 129 -> Some("AddressDoesNotExit")
      [] ins = 134 /\ sw2 = 129 -> Some("AddressDoesNotExit")
      [] ins = 32 /\ sw2 = 129 -> Some("WritingFailed")
      [] ins = 214 /\ sw2 = 129 -> Some("WritingFailed")
      [] OTHER -> None

\* the arm CommandImpossible(sw2): match (ins, sw2)
CommandImpossibleInfo(ins, sw2) ==
    CASE ins = 130 /\ sw2 = 130 -> Some("CardKeyNotSupported")
      [] ins = 130 /\ sw2 = 131 -> Some("ReaderKeyNotSupported")
      [] ins = 130 /\ sw2 = 132 -> Some("PlainTransmissionNotSupported")
      [] ins = 130 /\ sw2 = 133 -> Some("SecuredTransmissionNotSupported")
      [] ins = 130 /\ sw2 = 134 -> Some("VolatileMemoryUnavailable")
      [] ins = 130 /\ sw2 = 135 -> Some("NonVolatileMemoryUnavailable")
      [] ins = 130 /\ sw2 = 136 -> Some("KeyNumberNotValid")
      [] ins = 130 /\ sw2 = 137 -> Some("KeyLengthIncorrect")
      [] ins = 134 /\ sw2 = 130 -> Some("SecurityStatusUnsatisfied")
      [] ins = 134 /\ sw2 = 131 -> Some("CommandNotAllowed")
      [] ins = 134 /\ sw2 = 132 -> Some("ReferenceKeyUnusable")
      [] ins = 134 /\ sw2 = 134 -> Some("UnknownKeyType")
      [] ins = 134 /\ sw2 = 136 -> Some("KeyNumberNotValid")
      [] ins = 32 /\ sw2 = 130 -> Some("SecurityStatusUnsatisfied")
      [] ins = 32 /\ sw2 = 131 -> Some("CommandNotAllowed")
      [] ins = 32 /\ sw2 = 132 -> Some("ReferenceKeyUnusable")
      [] ins = 176 /\ sw2 = 129 -> Some("CommandIncompatible")
      [] ins = 176 /\ sw2 = 130 -> Some("SecurityStatusUnsatisfied")
      [] ins = 176 /\ sw2 = 134 -> Some("CommandNotAllowed")
      [] ins = 214 /\ sw2 = 129 -> Some("CommandIncompatible")
      [] ins = 214 /\ sw2 = 130 -> Some("SecurityStatusUnsatisfied")
      [] ins = 214 /\ sw2 = 134 -> Some("CommandNotAllowed")
      [] OTHER -> None

\* the arm CommandError(sw2): match sw2
CommandErrorInfo(sw2) ==
    CASE sw2 = 129 -> Some("FunctionNotSupported")
      [] sw2 = 130 -> Some("FileNotFound")
      [] sw2 = 136 -> Some("ReferenceDataNotFound")
      [] OTHER -> None

\* mutant: CommandError is looked up only for ReadBinary
extra_infoReadOnly(sw, ins) ==
    CASE sw[1] = "Warning" -> WarningInfo(sw[2])
      [] sw[1] = "MemoryFailure" -> MemoryFailureInfo(ins, sw[2])
      [] sw[1] = "CommandImpossible" -> CommandImpossibleInfo(ins, sw[2])
      [] sw[1] = "CommandError" ->
            IF ins = 176 THEN CommandErrorInfo(sw[2]) ELSE None
      [] OTHER -> None

\* PcscStatusWords::extra_info(&self, ins)
extra_info(sw, ins) ==
    CASE sw[1] = "Warning" -> WarningInfo(sw[2])
      [] sw[1] = "MemoryFailure" -> MemoryFailureInfo(ins, sw[2])
      [] sw[1] = "CommandImpossible" -> CommandImpossibleInfo(ins, sw[2])
      [] sw[1] = "CommandError" -> CommandErrorInfo(sw[2])
      [] OTHER -> None

(* Inputs of the lookup *)

DiagSubCodes == (128..138) \cup {0, 153, 255}
DiagStatuses ==
    {<<f, sw2>> : f \in {"Warning", "AllowedRetries", "MemoryFailure",
                         "CommandImpossible", "CommandError", "WrongLengthLe"},
                  sw2 \in DiagSubCodes}
    \cup {<<"WrongLength">>, <<"WrongClassByte">>, <<"WrongParameter">>,
          <<"Success">>, <<"Unknown", 100, 129>>}

(* The lookup driven as a state machine *)

InitInfo ==
    /\ status \in DiagStatuses /\ infoLog = <<>>
    /\ CmdIdle /\ RespIdle /\ AtrIdle /\ TagIdle /\ ReaderIdle

\* let info = status.extra_info(ins)
ExtraInfo ==
    /\ Len(infoLog) < MaxLookups
    /\ \E ins \in InsBytes :
          infoLog' = Append(infoLog,
                        [ins |-> ins, res |-> extra_info(status, ins)])
    /\ UNCHANGED <<status, cmdVars, respVars, atrVars, tag, readerVars>>

NextInfo == ExtraInfo

SpecInfo == InitInfo /\ [][NextInfo]_vars

(* Claims about extra_info, checked under SpecInfo *)

SameForAllInstructions ==
    \A i, j \in 1..Len(infoLog) : infoLog[i].res = infoLog[j].res

\* C15 as stated: for Warning, MemoryFailure and CommandError the diagnostic
\* is the same for every two instruction codes (CommandError(0x82) is
\* FileNotFound for any instruction); only CommandImpossible may differ.
C15_KeyedByFamilyAll ==
    /\ status[1] # "CommandImpossible" => SameForAllInstructions
    /\ status = <<"CommandError", 130>> =>
            \A i \in 1..Len(infoLog) : infoLog[i].res = Some("FileNotFound")

\* C15 amended: for Warning and CommandError the diagnostic is the same for
\* every two instruction codes (CommandError(0x82) is FileNotFound for any
\* instruction); only MemoryFailure and CommandImpossible may differ.
C15_KeyedByFamily ==
    /\ status[1] \notin {"CommandImpossible", "MemoryFailure"}
            => SameForAllInstructions
    /\ status = <<"CommandError", 130>> =>
            \A i \in 1..Len(infoLog) : infoLog[i].res = Some("FileNotFound")

\* C15 witness: CommandError(0x82) was looked up for two different instruction
\* codes and both lookups gave FileNotFound.
C15_Witness ==
    /\ status = <<"CommandError", 130>>
    /\ Len(infoLog) >= 2
    /\ infoLog[1].ins # infoLog[2].ins
    /\ infoLog[1].res = Some("FileNotFound")
    /\ infoLog[2].res = Some("FileNotFound")

----------------------------------------------------------------------------
(* Claim about expected_response_len, checked under SpecCommand *)

\* C16: expected_response_len is 257 for GetData / ReadBinary with le = 0,
\* le + 2 for GetData / ReadBinary with le in 1..255, and 2 for the four other
\* instructions; it is always between 2 and 257.
C16_ExpectedResponseLen ==
    expected.some =>
        LET c == expected.val.cmd
            n == expected.val.len
            reads == c.ins.tag \in {"GetData", "ReadBinary"}
        IN  /\ (reads /\ c.ins.le = 0) => n = 257
            /\ (reads /\ c.ins.le >= 1 /\ c.ins.le <= 255) => n = c.ins.le + 2
            /\ c.ins.tag \in {"LoadKeys", "GeneralAuthenticate", "Verify",
                               "UpdateBinary"} => n = 2
            /\ n >= 2 /\ n <= 257

\* C16 witness: expected_response_len was asked of a GetData command with
\* le = 0 and answered 257.
C16_Witness ==
    /\ expected.some
    /\ expected.val.cmd.ins = GetData(0)
    /\ expected.val.len = 257

----------------------------------------------------------------------------
(* RfidTag::run_command and the codec it uses (src/src/lib.rs) *)

\* key_type as u8, for lib.rs's #[repr(u8)] enum KeyType { Unknown, MifareA =
\* 0x60, MifareB = 0x61 }
LibKeyTypeAsU8(key_type) ==
    CASE key_type = <<"Unknown">> -> 0
      [] key_type = <<"MifareA">> -> 96
      [] key_type = <<"MifareB">> -> 97

\* lib.rs: impl From<PcscCommand> for Vec<u8>
LibCommandToBytes(value) ==
    LET ins == ins_code(value)
    IN  CASE value.ins.tag \in {"GetData", "ReadBinary"} ->
                <<255, ins, value.p1, value.p2, value.ins.le>>
          [] value.ins.tag \in {"LoadKeys", "Verify", "UpdateBinary"} ->
                <<255, 130, value.p1, value.p2, Len(value.ins.data) % 256>>
                \o value.ins.data
          [] value.ins.tag = "GeneralAuthenticate" ->
                LET addr == U16ToBeBytes(value.ins.address)
                IN  <<255, 134, value.p1, value.p2, 5, 1, addr[1], addr[2],
                      LibKeyTypeAsU8(value.ins.key_type), value.ins.key_id>>

\* lib.rs: the match on value[eod] in PcscResponse::try_from
LibSwFrom(sw1, sw2) ==
    CASE sw1 = 98 -> <<"Error", <<"Warning", sw2>>>>
      [] sw1 = 99 -> <<"Error", <<"AllowedRetries", sw2>>>>
      [] sw1 = 101 -> <<"Error", <<"MemoryFailure", sw2>>>>
      [] sw1 = 103 -> <<"Error", <<"WrongLength">>>>
      [] sw1 = 104 -> <<"Error", <<"WrongClassByte">>>>
      [] sw1 = 105 -> <<"Error", <<"CommandImpossible", sw2>>>>
      [] sw1 = 106 -> <<"Error", <<"CommandError", sw2>>>>
      [] sw1 = 107 -> <<"Error", <<"WrongParameter">>>>
      [] sw1 = 108 -> <<"Error", <<"WrongLengthLe", sw2>>>>
      [] OTHER -> <<"Response", sw1, sw2>>

\* lib.rs: impl TryFrom<&[u8]> for PcscResponse
LibResponseTryFrom(value) ==
    IF Len(value) \in {0, 1} THEN Panic  \* todo!()
    ELSE LET len == Len(value)
             data == IF len = RESP_MIN_LENGTH THEN <<>> ELSE Take(value, len - 2)
             eod == IF len = RESP_MIN_LENGTH THEN 0 ELSE len - 2
         IN  Ok(PcscResponse(data,
                    LibSwFrom(At(value, eod), At(value, eod + 1))))

\* [0u8; PcscResponse::MAX_LENGTH]
ZeroBuf == [i \in 1..RESP_MAX_LENGTH |-> 0]

\* the receive buffer after card.transmit wrote a reply of n bytes into it
Received(buf, bytes) == bytes \o SubSeq(buf, Len(bytes) + 1, Len(buf))

\* the slice of the receive buffer that run_command decodes: &buf[2..]
DecodedSlice(buf) == Drop(buf, 2)

(* Inputs of run_command *)

TagCommands ==
    {PcscCommand(i, 0, p2) :
        i \in {GetData(0), GetData(255), ReadBinary(1), LoadKeys(<<>>),
               LoadKeys(<<0, 255>>), Verify(<<255>>), UpdateBinary(<<0>>),
               GeneralAuthenticate(256, <<"MifareA">>, 0),
               GeneralAuthenticate(1, <<"Unknown">>, 255)},
        p2 \in {0, 1}}
TagReplyLens == 0..MaxData \cup (U8_MAX - 2 - MaxOver)..U8_MAX
TagReplies ==
    {Pattern(n, 0) \o sw : n \in TagReplyLens,
                           sw \in {<<144, 0>>, <<106, 130>>, <<99, 194>>}}
TransportErrors == {"NoSmartcard", "ResetCard"}
TransmitOutcomes == {Err(e) : e \in TransportErrors} \cup {Ok(b) : b \in TagReplies}

(* One run_command call, step by step *)

InitTag ==
    /\ tag \in {[pc |-> "call", command |-> c, command_bytes |-> <<>>,
                 buf |-> <<>>, transmit |-> None, trace |-> <<>>,
                 res |-> None] : c \in TagCommands}
    /\ CmdIdle /\ RespIdle /\ AtrIdle /\ InfoIdle /\ ReaderIdle

\* let command_bytes: Vec<u8> = command.into(); let mut buf = [0u8; MAX_LENGTH]
RunCommandEncode ==
    /\ tag.pc = "call"
    /\ tag' = [tag EXCEPT !.pc = "transmit",
                          !.command_bytes = LibCommandToBytes(tag.command),
                          !.buf = ZeroBuf,
                          !.trace = Append(@, "encode")]
    /\ UNCHANGED <<cmdVars, respVars, atrVars, infoVars, readerVars>>

\* self.card.transmit(&command_bytes, &mut buf)?
RunCommandTransmit ==
    /\ tag.pc = "transmit"
    /\ \E out \in TransmitOutcomes :
          IF out.tag = "Ok"
          THEN tag' = [tag EXCEPT !.pc = "decode",
                                  !.buf = Received(tag.buf, out.val),
                                  !.transmit = Some(out),
                                  !.trace = Append(@, "transmit")]
          ELSE tag' = [tag EXCEPT !.pc = "done",
                                  !.transmit = Some(out),
                                  !.trace = Append(@, "transmit"),
                                  !.res = Some(out)]
    /\ UNCHANGED <<cmdVars, respVars, atrVars, infoVars, readerVars>>

\* let response = PcscResponse::try_from(&buf[2..]).unwrap(); Ok(response)
RunCommandDecode ==
    /\ tag.pc = "decode"
    /\ tag' = [tag EXCEPT !.pc = "done",
                          !.trace = Append(@, "decode"),
                          !.res = Some(LibResponseTryFrom(DecodedSlice(tag.buf)))]
    /\ UNCHANGED <<cmdVars, respVars, atrVars, infoVars, readerVars>>

NextTag == RunCommandEncode \/ RunCommandTransmit \/ RunCommandDecode

SpecTag == InitTag /\ [][NextTag]_vars

(* Claim about run_command, checked under SpecTag *)

\* C17: run_command encodes, transmits exactly once and decodes, in that
\* order, and for a transport reply of n bytes (2 <= n <= 257) returns the
\* Response whose status word is the last two bytes of the reply and whose
\* payload is the n-2 bytes before them; when transmit fails it returns the
\* transport error and decodes nothing.
C17_RunCommand ==
    tag.pc = "done" =>
        LET out == tag.transmit.val
        IN  IF out.tag = "Ok"
            THEN LET b == out.val
                     n == Len(b)
                 IN  (n >= 2 /\ n <= 257) =>
                        /\ tag.trace = <<"encode", "transmit", "decode">>
                        /\ tag.res.val.tag = "Ok"
                        /\ tag.res.val.val.data = SubSeq(b, 1, n - 2)
                        /\ tag.res.val.val.sw = LibSwFrom(b[n - 1], b[n])
            ELSE /\ tag.trace = <<"encode", "transmit">>
                 /\ tag.res = Some(out)

----------------------------------------------------------------------------
(* Reader::get_card (src/src/lib.rs) *)

\* a pcsc::State is a set of flags; State::UNAWARE is the empty set
UNAWARE == {}
PRESENT == {"PRESENT"}

\* event.intersects(State::UNKNOWN | State::IGNORE)
RemovedOrIgnored(event) == event \cap {"UNKNOWN", "IGNORE"} # {}

\* if event.intersects(State::UNKNOWN | State::IGNORE) { self.is_alive = false }
IsAliveAfter(is_alive, event) ==
    IF RemovedOrIgnored(event) THEN FALSE ELSE is_alive

\* match self.state[0].atr().get(5)
TagTypeOf(atr5) == IF atr5 = Some(79) THEN "Iso14443_3" ELSE "Unknown"

\* mutant: the current state is left as it was
sync_current_stateMissing(r) == r

\* self.state[0].sync_current_state()
sync_current_state(r) == [r EXCEPT !.current_state = r.event_state]

\* what one get_card call did: the reader it leaves, what it returns, and
\* whether it polled (with the event state it saw) and connected
Call(r, res, polled, connected) ==
    [reader |-> r, res |-> res, polled |-> polled, connected |-> connected]

\* get_card after the is_alive check; poll is the outcome of
\* get_status_change (with the event state it leaves in the ReaderState),
\* connect the outcome context.connect would have, atr5 the ATR's byte 5
get_card_alive(r, poll, connect, atr5) ==
    LET polled == [r EXCEPT !.event_state = poll.event]
    IN  IF poll.tag = "Err" THEN Call(polled, Err(poll.err), TRUE, FALSE)
        ELSE LET event == poll.event
                 r1 == [polled EXCEPT !.is_alive = IsAliveAfter(r.is_alive, event)]
             IN  IF event # r1.current_state /\ event = PRESENT
                 THEN IF connect.tag = "Err"
                      THEN Call(r1, Err(connect.err), TRUE, TRUE)
                      ELSE Call(sync_current_state(r1),
                                Ok(Some([tag_type |-> TagTypeOf(atr5)])),
                                TRUE, TRUE)
                 ELSE Call(sync_current_state(r1), Ok(None), TRUE, FALSE)

\* mutant: is_alive is not checked on entry
get_cardUnchecked(r, poll, connect, atr5) == get_card_alive(r, poll, connect, atr5)

\* Reader::get_card
get_card(r, poll, connect, atr5) ==
    IF ~r.is_alive THEN Call(r, Err("ReaderUnavailable"), FALSE, FALSE)
    ELSE get_card_alive(r, poll, connect, atr5)

(* Inputs of get_card: what the transport answers *)

EventStates ==
    {UNAWARE, PRESENT, {"PRESENT", "CHANGED"}, {"EMPTY", "CHANGED"},
     {"UNKNOWN", "CHANGED"}, {"IGNORE"}, {"UNKNOWN", "IGNORE"}}
PollOutcomes ==
    {[tag |-> "Ok", event |-> e] : e \in EventStates}
    \cup {[tag |-> "Err", err |-> "NoService", event |-> e] :
            e \in {UNAWARE, PRESENT, {"UNKNOWN", "CHANGED"}}}
ConnectOutcomes == {[tag |-> "Ok"], [tag |-> "Err", err |-> "NoSmartcard"]}
Atr5s == {Some(79), Some(128), None}

(* The reader driven as a state machine *)

\* Pcsc::get_readers: Reader { state: [ReaderState::new(name, UNAWARE)],
\* is_alive: true }
InitReader ==
    /\ reader = [is_alive |-> TRUE, current_state |-> UNAWARE,
                 event_state |-> UNAWARE]
    /\ readerLog = <<>>
    /\ CmdIdle /\ RespIdle /\ AtrIdle /\ InfoIdle /\ TagIdle

\* let card = reader.get_card()
GetCard ==
    /\ Len(readerLog) < MaxCalls
    /\ \E poll \in PollOutcomes, connect \in ConnectOutcomes, atr5 \in Atr5s :
          LET call == get_card(reader, poll, connect, atr5)
          IN  /\ reader' = call.reader
              /\ readerLog' = Append(readerLog,
                    [before |-> reader, after |-> call.reader,
                     res |-> call.res, polled |-> call.polled,
                     connected |-> call.connected,
                     event |-> IF call.polled THEN Some(poll) ELSE None])
    /\ UNCHANGED <<cmdVars, respVars, atrVars, infoVars, tag>>

NextReader == GetCard

SpecReader == InitReader /\ [][NextReader]_vars

(* Claims about the reader, checked under SpecReader *)

\* the call polled successfully and saw this event state
Saw(c, event) == c.polled /\ c.event.val.tag = "Ok" /\ c.event.val.event = event
SawRemoved(c) ==
    c.polled /\ c.event.val.tag = "Ok" /\ RemovedOrIgnored(c.event.val.event)
ReturnedTag(c) == c.res.tag = "Ok" /\ c.res.val.some

\* C19: is_alive is a one-way latch: it only changes from true to false, in
\* the get_card call whose polled event state intersects UNKNOWN or IGNORE;
\* once it is false every later get_card call returns Err(ReaderUnavailable)
\* without polling, connecting or changing the reader state.
C19_LivenessLatch ==
    /\ \A i \in 1..Len(readerLog) :
          LET c == readerLog[i]
          IN  /\ c.after.is_alive # c.before.is_alive
                    => c.before.is_alive /\ ~c.after.is_alive
              /\ (c.before.is_alive /\ ~c.after.is_alive) <=>
                    (c.before.is_alive /\ SawRemoved(c))
              /\ ~c.before.is_alive =>
                    /\ c.res = Err("ReaderUnavailable")
                    /\ ~c.polled /\ ~c.connected
                    /\ c.after = c.before
    /\ \A i, j \in 1..Len(readerLog) :
          (i < j /\ ~readerLog[i].after.is_alive)
              => readerLog[j].res = Err("ReaderUnavailable")

\* C19 witness: a call polled an event state with UNKNOWN and cleared
\* is_alive, and the next call returned ReaderUnavailable without polling.
C19_Witness ==
    /\ Len(readerLog) >= 2
    /\ readerLog[1].before.is_alive /\ ~readerLog[1].after.is_alive
    /\ Saw(readerLog[1], {"UNKNOWN", "CHANGED"})
    /\ readerLog[2].res = Err("ReaderUnavailable")
    /\ ~readerLog[2].polled

\* C20: get_card returns a tag only in a call whose polled event state
\* differs from the current state and equals PRESENT; every call that returns
\* Ok leaves the current state equal to the polled event state, so a following
\* call polling the same event state returns no tag; a call that fails in the
\* poll or in connect leaves the current state as it was.
C20_TagOnNewPresence ==
    /\ \A i \in 1..Len(readerLog) :
          LET c == readerLog[i]
          IN  /\ ReturnedTag(c) =>
                    /\ Saw(c, {"PRESENT"})
                    /\ c.before.current_state # {"PRESENT"}
              /\ c.res.tag = "Ok" =>
                    /\ c.polled /\ c.event.val.tag = "Ok"
                    /\ c.after.current_state = c.event.val.event
              /\ (c.res.tag = "Err" /\ c.polled) =>
                    c.after.current_state = c.before.current_state
    /\ \A i \in 1..(Len(readerLog) - 1) :
          LET c == readerLog[i]
              d == readerLog[i + 1]
          IN  (c.res.tag = "Ok" /\ d.polled /\ d.event.val.tag = "Ok"
               /\ d.event.val.event = c.event.val.event)
                  => ~ReturnedTag(d)

\* C20 witness: a call polled PRESENT and returned a tag, and the following
\* call polled PRESENT again and returned Ok without a tag.
C20_Witness ==
    /\ Len(readerLog) >= 2
    /\ Saw(readerLog[1], {"PRESENT"}) /\ ReturnedTag(readerLog[1])
    /\ Saw(readerLog[2], {"PRESENT"})
    /\ readerLog[2].res = Ok(None)

====
